---- MODULE Spec2Model ----
(***************************************************************************)
(* Model of PrinterManager (printermanager.py) of CUPS Cloud Print:        *)
(* the legacy device-URI parser, the printer list and printer detail       *)
(* caches, the job option parser and the capability payload builder.       *)
(*                                                                         *)
(* Python strings are modelled as sequences of one-character strings, so   *)
(* that splitting, stripping and URL-decoding are computed, not assumed.   *)
(***************************************************************************)
EXTENDS Integers, Sequences, FiniteSets, TLC

VARIABLES
    uriIn, uriOut, uriPc,          \* one parseLegacyURI call: arguments, result, position
    cloud,                         \* what each requestor's search() would report now
    hasPrinters, printersAttr,     \* hasattr(self, '_printers') and self._printers
    searchCount,                   \* search() invocations per requestor so far
    lstCalls, lstFilter, lstReturn,\* getPrinters calls so far, last argument, last outcome
    firstFilter, firstFetched,     \* argument of the first call, _printers after it
    requestor,                     \* self.requestor
    cachedPrinterDetails,          \* the detail cache: printer id -> payload
    detailRev,                     \* revision of the details the cloud holds per id
    callsFor, attempts,            \* getPrinterDetails calls and printer(id) calls per id
    firstFetch, failedLast,        \* outcome of the first / of the latest printer(id) per id
    dtlLast, dtlReturn,            \* id and outcome of the latest getPrinterDetails call
    optIn, optOut, optPc,          \* one getOverrideCapabilities call
    capIn, capOut, capPc           \* one getCapabilitiesDict call

uriVars == <<uriIn, uriOut, uriPc>>

optVars == <<optIn, optOut, optPc>>

capVars == <<capIn, capOut, capPc>>

dtlVars == <<requestor, cachedPrinterDetails, detailRev, callsFor, attempts,
             firstFetch, failedLast, dtlLast, dtlReturn>>

lstVars == <<cloud, hasPrinters, printersAttr, searchCount, lstCalls, lstFilter,
             lstReturn, firstFilter, firstFetched>>

\* Python's None.  No string of the model contains the character "None".
None == <<"None">>

(***************************************************************************)
(* String helpers (Python str methods)                                     *)
(***************************************************************************)

RECURSIVE SeqsUpTo(_, _)
\* All strings over alphabet A of length at most n.
SeqsUpTo(A, n) ==
    IF n = 0 THEN {<<>>}
    ELSE LET shorter == SeqsUpTo(A, n - 1)
         IN  shorter \cup {Append(s, c) : s \in {t \in shorter : Len(t) = n - 1}, c \in A}

\* s[i:] with a 1-based index.
From(s, i) == IF i > Len(s) THEN <<>> ELSE SubSeq(s, i, Len(s))

RECURSIVE LStrip(_, _)
LStrip(s, c) == IF s # <<>> /\ Head(s) = c THEN LStrip(Tail(s), c) ELSE s

RECURSIVE RStrip(_, _)
RStrip(s, c) ==
    IF s # <<>> /\ s[Len(s)] = c THEN RStrip(SubSeq(s, 1, Len(s) - 1), c) ELSE s

\* str.strip(c)
Strip(s, c) == RStrip(LStrip(s, c), c)

RECURSIVE SplitAcc(_, _, _, _)
SplitAcc(s, c, cur, acc) ==
    IF s = <<>> THEN Append(acc, cur)
    ELSE IF Head(s) = c THEN SplitAcc(Tail(s), c, <<>>, Append(acc, cur))
    ELSE SplitAcc(Tail(s), c, Append(cur, Head(s)), acc)

\* str.split(c) for a one-character separator: never an empty list.
Split(s, c) == SplitAcc(s, c, <<>>, <<>>)

RECURSIVE FindAny(_, _, _)
\* Index of the first character of s at or after i that is in cs, else Len(s)+1.
FindAny(s, cs, i) ==
    IF i > Len(s) THEN Len(s) + 1
    ELSE IF s[i] \in cs THEN i ELSE FindAny(s, cs, i + 1)

(***************************************************************************)
(* urllib.unquote                                                          *)
(***************************************************************************)

HexDigits == {"0", "1", "2", "3", "4", "5", "6", "7", "8", "9",
              "a", "b", "c", "d", "e", "f", "A", "B", "C", "D", "E", "F"}

\* The character a %XY escape stands for.  The table lists the escapes the
\* input alphabet can spell; any other pair of hex digits is kept as one
\* opaque character named after its code.
HexToChr(h1, h2) ==
    CASE h1 = "4" /\ h2 = "4" -> "D"
      [] h1 = "4" /\ h2 = "0" -> "@"
      [] h1 = "2" /\ h2 = "F" -> "/"
      [] h1 = "2" /\ h2 = "5" -> "%"
      [] OTHER -> "\\x" \o h1 \o h2

RECURSIVE unquote(_)
unquote(s) ==
    IF s = <<>> THEN <<>>
    ELSE IF Head(s) = "%" /\ Len(s) >= 3 /\ s[2] \in HexDigits /\ s[3] \in HexDigits
         THEN <<HexToChr(s[2], s[3])>> \o unquote(From(s, 4))
    ELSE <<Head(s)>> \o unquote(Tail(s))

(***************************************************************************)
(* urlparse: the netloc and path of a cloudprint: URI                      *)
(***************************************************************************)

PROTOCOL == <<"c", "l", "o", "u", "d", "p", "r", "i", "n", "t", ":", "/", "/">>

\* urlparse(uristring): the scheme up to the first ':' is removed; when the
\* rest starts with '//' the netloc runs to the first of '/', '?', '#'; the
\* path ends at the first '?' or '#'.
urlparse(uristring) ==
    LET rest    == From(uristring, FindAny(uristring, {":"}, 1) + 1)
        hasNet  == Len(rest) >= 2 /\ rest[1] = "/" /\ rest[2] = "/"
        netEnd  == IF hasNet THEN FindAny(rest, {"/", "?", "#"}, 3) ELSE 1
        netloc  == IF hasNet THEN SubSeq(rest, 3, netEnd - 1) ELSE <<>>
        url     == From(rest, netEnd)
        pathEnd == FindAny(url, {"?", "#"}, 1)
    IN  [netloc |-> netloc, path |-> SubSeq(url, 1, pathEnd - 1)]

(***************************************************************************)
(* PrinterManager.parseLegacyURI                                           *)
(***************************************************************************)

URIFormatLatest == 1
URIFormat20140307 == 2
URIFormat20140210 == 3

IndexError == [accountName |-> None, printerName |-> None, printerId |-> None,
               formatId |-> 0, raised |-> TRUE]

\* Variant: the account-membership test is made before the segment count.
parseLegacyURI_membershipFirst(uristring, accountNames) ==
    LET uri       == urlparse(uristring)
        pathparts == Split(Strip(uri.path, "/"), "/")
    IN  IF unquote(uri.netloc) \in accountNames
        THEN [accountName |-> unquote(uri.netloc),
              printerName |-> None,
              printerId   |-> unquote(pathparts[1]),
              formatId    |-> URIFormatLatest,
              raised      |-> FALSE]
        ELSE IF Len(pathparts) = 2
        THEN [accountName |-> unquote(pathparts[1]),
              printerName |-> unquote(uri.netloc),
              printerId   |-> unquote(pathparts[2]),
              formatId    |-> URIFormat20140307,
              raised      |-> FALSE]
        ELSE [accountName |-> unquote(pathparts[1]),
              printerName |-> unquote(uri.netloc),
              printerId   |-> None,
              formatId    |-> URIFormat20140210,
              raised      |-> FALSE]

\* Variant: the Latest branch returns the path segment without URL-decoding.
parseLegacyURI_rawSegment(uristring, accountNames) ==
    LET uri       == urlparse(uristring)
        pathparts == Split(Strip(uri.path, "/"), "/")
    IN  IF Len(pathparts) = 2
        THEN [accountName |-> unquote(pathparts[1]),
              printerName |-> unquote(uri.netloc),
              printerId   |-> unquote(pathparts[2]),
              formatId    |-> URIFormat20140307,
              raised      |-> FALSE]
        ELSE IF unquote(uri.netloc) \notin accountNames
        THEN [accountName |-> unquote(pathparts[1]),
              printerName |-> unquote(uri.netloc),
              printerId   |-> None,
              formatId    |-> URIFormat20140210,
              raised      |-> FALSE]
        ELSE [accountName |-> unquote(uri.netloc),
              printerName |-> None,
              printerId   |-> pathparts[1],
              formatId    |-> URIFormatLatest,
              raised      |-> FALSE]

\* Variant: the Latest branch keeps the authority as a guessed printer name.
parseLegacyURI_guessedName(uristring, accountNames) ==
    LET uri       == urlparse(uristring)
        pathparts == Split(Strip(uri.path, "/"), "/")
    IN  IF Len(pathparts) = 2
        THEN [accountName |-> unquote(pathparts[1]),
              printerName |-> unquote(uri.netloc),
              printerId   |-> unquote(pathparts[2]),
              formatId    |-> URIFormat20140307,
              raised      |-> FALSE]
        ELSE IF unquote(uri.netloc) \notin accountNames
        THEN [accountName |-> unquote(pathparts[1]),
              printerName |-> unquote(uri.netloc),
              printerId   |-> None,
              formatId    |-> URIFormat20140210,
              raised      |-> FALSE]
        ELSE [accountName |-> unquote(uri.netloc),
              printerName |-> unquote(uri.netloc),
              printerId   |-> unquote(pathparts[1]),
              formatId    |-> URIFormatLatest,
              raised      |-> FALSE]

\* accountNames is Auth.GetAccountNames(requestors).  pathparts[0] and
\* pathparts[1] raise IndexError when the list is too short.
parseLegacyURI(uristring, accountNames) ==
    LET uri       == urlparse(uristring)
        pathparts == Split(Strip(uri.path, "/"), "/")
    IN  IF Len(pathparts) = 2
        THEN [accountName |-> unquote(pathparts[1]),
              printerName |-> unquote(uri.netloc),
              printerId   |-> unquote(pathparts[2]),
              formatId    |-> URIFormat20140307,
              raised      |-> FALSE]
        ELSE IF Len(pathparts) < 1 THEN IndexError
        ELSE IF unquote(uri.netloc) \notin accountNames
        THEN [accountName |-> unquote(pathparts[1]),
              printerName |-> unquote(uri.netloc),
              printerId   |-> None,
              formatId    |-> URIFormat20140210,
              raised      |-> FALSE]
        ELSE [accountName |-> unquote(uri.netloc),
              printerName |-> None,
              printerId   |-> unquote(pathparts[1]),
              formatId    |-> URIFormatLatest,
              raised      |-> FALSE]

(***************************************************************************)
(* PrinterManager.getPrinters and the printer list cache                   *)
(***************************************************************************)

\* self.requestors, in list order, and requestor.getAccount().
Requestors == <<"r1", "r2">>

RequestorSet == {Requestors[i] : i \in 1..Len(Requestors)}

getAccount(r) == IF r = "r1" THEN "a" ELSE "b"

\* Printer ids are unique within an account only; listed in report order.
PrinterIds == <<"p1", "p2">>

PrinterIdSet == {PrinterIds[i] : i \in 1..Len(PrinterIds)}

\* accountName=None
NoFilter == "None"

\* The account filters a caller passes: none, an account of a requestor, or
\* an account no requestor has.
Filters == {NoFilter, "a", "b", "c"}

\* What one search() does: answers with a 'printers' list, answers without
\* that key, or raises.
SearchOutcomes == {"printers", "nokey", "raise"}

\* Printer(printer_info, requestor) for every entry of responseobj['printers'].
SearchResponse(cloudNow, r) ==
    LET ids == SelectSeq(PrinterIds, LAMBDA p : p \in cloudNow[r])
    IN  [i \in 1..Len(ids) |-> [id |-> ids[i], requestor |-> r]]

RECURSIVE FetchLoop(_, _, _, _, _, _)
\* The loop "for requestor in self.requestors" from position i, with the
\* list built so far and the search() counts so far.
FetchLoop(i, acc, counts, cloudNow, accountName, outcome) ==
    IF i > Len(Requestors) THEN [printers |-> acc, counts |-> counts, raised |-> FALSE]
    ELSE LET r == Requestors[i]
         IN  IF accountName # NoFilter /\ accountName # getAccount(r)
             THEN FetchLoop(i + 1, acc, counts, cloudNow, accountName, outcome)
             ELSE LET counted == [counts EXCEPT ![r] = @ + 1]
                  IN  IF outcome[r] = "raise"
                      THEN [printers |-> acc, counts |-> counted, raised |-> TRUE]
                      ELSE IF outcome[r] = "printers"
                      THEN FetchLoop(i + 1, acc \o SearchResponse(cloudNow, r), counted,
                                     cloudNow, accountName, outcome)
                      ELSE FetchLoop(i + 1, acc, counted, cloudNow, accountName, outcome)

\* Variant: a call with an account filter always queries the cloud again.
getPrinters_refetchOnFilter(has, printers, counts, cloudNow, accountName, outcome) ==
    IF ~has \/ accountName # NoFilter
    THEN LET res == FetchLoop(1, <<>>, counts, cloudNow, accountName, outcome)
         IN  [has |-> TRUE, printers |-> res.printers, counts |-> res.counts,
              ret |-> [raised |-> res.raised,
                       value |-> IF res.raised THEN <<>> ELSE res.printers]]
    ELSE [has |-> has, printers |-> printers, counts |-> counts,
          ret |-> [raised |-> FALSE, value |-> printers]]

\* getPrinters(accountName): the new hasattr/_printers, the search() counts
\* and what the call returns (or that it raised).  _printers is assigned the
\* empty list before the loop, so a raising search() leaves the part built
\* so far in place.
getPrinters(has, printers, counts, cloudNow, accountName, outcome) ==
    IF ~has
    THEN LET res == FetchLoop(1, <<>>, counts, cloudNow, accountName, outcome)
         IN  [has |-> TRUE, printers |-> res.printers, counts |-> res.counts,
              ret |-> [raised |-> res.raised,
                       value |-> IF res.raised THEN <<>> ELSE res.printers]]
    ELSE [has |-> has, printers |-> printers, counts |-> counts,
          ret |-> [raised |-> FALSE, value |-> printers]]

MaxCalls == 3

NoReturn == [raised |-> FALSE, value |-> <<>>]

LstInit ==
    /\ cloud \in [RequestorSet -> SUBSET PrinterIdSet]
    /\ hasPrinters = FALSE
    /\ printersAttr = <<>>
    /\ searchCount = [r \in RequestorSet |-> 0]
    /\ lstCalls = 0
    /\ lstFilter = NoFilter
    /\ lstReturn = NoReturn
    /\ firstFilter = NoFilter
    /\ firstFetched = <<>>

\* One call of getPrinters(accountName).
GetPrinters ==
    /\ lstCalls < MaxCalls
    /\ \E accountName \in Filters, outcome \in [RequestorSet -> SearchOutcomes] :
          LET res == getPrinters(hasPrinters, printersAttr, searchCount, cloud,
                                 accountName, outcome)
          IN  /\ hasPrinters' = res.has
              /\ printersAttr' = res.printers
              /\ searchCount' = res.counts
              /\ lstReturn' = res.ret
              /\ lstFilter' = accountName
              /\ firstFilter' = IF lstCalls = 0 THEN accountName ELSE firstFilter
              /\ firstFetched' = IF lstCalls = 0 THEN res.printers ELSE firstFetched
    /\ lstCalls' = lstCalls + 1
    /\ UNCHANGED cloud

\* A printer is added to or removed from an account in the cloud.
CloudChange ==
    /\ \E r \in RequestorSet, p \in PrinterIdSet :
          cloud' = [cloud EXCEPT ![r] = IF p \in @ THEN @ \ {p} ELSE @ \cup {p}]
    /\ UNCHANGED <<hasPrinters, printersAttr, searchCount, lstCalls, lstFilter,
                   lstReturn, firstFilter, firstFetched>>


(***************************************************************************)
(* Properties of the printer list cache                                    *)
(***************************************************************************)

\* C4: search() runs only during the first getPrinters call: no requestor is
\* searched more than once, no call after the first searches at all, and
\* every later call returns the list the first call fetched, whatever the
\* filters and whatever the cloud reports by then.
C4_SearchOnlyInFirstCall ==
    /\ [](\A r \in RequestorSet : searchCount[r] <= 1)
    /\ [](lstCalls >= 2 => (~lstReturn.raised /\ lstReturn.value = firstFetched))
    /\ [][lstCalls >= 1 => searchCount' = searchCount]_lstVars

\* A later call with another filter returned the first call's non-empty
\* list although the cloud now reports a different printer set.
C4_Witness ==
    /\ lstCalls >= 2
    /\ lstFilter # firstFilter
    /\ firstFetched # <<>>
    /\ lstReturn.value = firstFetched
    /\ \E r \in RequestorSet : searchCount[r] = 1 /\ SearchResponse(cloud, r) = <<>>

\* C5 as stated: a later call with an account filter returns only printers
\* of requestors of that account, and a later call without a filter returns
\* the whole fetched list.
C5_LaterCallFiltersByItsFilter ==
    (lstCalls >= 2 /\ ~lstReturn.raised) =>
        IF lstFilter = NoFilter
        THEN lstReturn.value = firstFetched
        ELSE \A i \in 1..Len(lstReturn.value) :
                getAccount(lstReturn.value[i].requestor) = lstFilter

(***************************************************************************)
(* PrinterManager.getPrinterDetails and the detail cache                   *)
(***************************************************************************)

\* requestor = None, the class attribute before a caller assigns one.
NoRequestor == "None"

\* What requestor.printer(printerid) answers when it succeeds.
DetailPayload(r, printerid, rev) == [id |-> printerid, by |-> r, rev |-> rev]

NoPayload == [id |-> "None", by |-> "None", rev |-> 0]

\* The dictionary d with d[k] = v stored.
DictSet(d, k, v) == [x \in DOMAIN d \cup {k} |-> IF x = k THEN v ELSE d[x]]

\* Variant: the cache is not consulted, every call fetches and stores.
getPrinterDetails_alwaysFetch(req, cache, rev, printerid, fails) ==
    IF req = NoRequestor
    THEN [cache |-> cache, fetched |-> FALSE,
          ret |-> [raised |-> TRUE, value |-> NoPayload]]
    ELSE IF fails
    THEN [cache |-> cache, fetched |-> TRUE,
          ret |-> [raised |-> TRUE, value |-> NoPayload]]
    ELSE LET printerdetails == DetailPayload(req, printerid, rev[printerid])
         IN  [cache |-> DictSet(cache, printerid, printerdetails),
              fetched |-> TRUE,
              ret |-> [raised |-> FALSE, value |-> printerdetails]]

\* Variant: a failed fetch is swallowed and its empty result is cached.
getPrinterDetails_cacheFailure(req, cache, rev, printerid, fails) ==
    IF printerid \notin DOMAIN cache
    THEN IF req = NoRequestor
         THEN [cache |-> cache, fetched |-> FALSE,
               ret |-> [raised |-> TRUE, value |-> NoPayload]]
         ELSE IF fails
         THEN [cache |-> DictSet(cache, printerid, NoPayload), fetched |-> TRUE,
               ret |-> [raised |-> FALSE, value |-> NoPayload]]
         ELSE LET printerdetails == DetailPayload(req, printerid, rev[printerid])
              IN  [cache |-> DictSet(cache, printerid, printerdetails),
                   fetched |-> TRUE,
                   ret |-> [raised |-> FALSE, value |-> printerdetails]]
    ELSE [cache |-> cache, fetched |-> FALSE,
          ret |-> [raised |-> FALSE, value |-> cache[printerid]]]

\* getPrinterDetails(printerid): the new cache, whether requestor.printer was
\* invoked, and what the call returns.  With requestor None the attribute
\* lookup raises before any fetch; a raising printer() leaves before the
\* assignment to the cache.
getPrinterDetails(req, cache, rev, printerid, fails) ==
    IF printerid \notin DOMAIN cache
    THEN IF req = NoRequestor
         THEN [cache |-> cache, fetched |-> FALSE,
               ret |-> [raised |-> TRUE, value |-> NoPayload]]
         ELSE IF fails
         THEN [cache |-> cache, fetched |-> TRUE,
               ret |-> [raised |-> TRUE, value |-> NoPayload]]
         ELSE LET printerdetails == DetailPayload(req, printerid, rev[printerid])
              IN  [cache |-> DictSet(cache, printerid, printerdetails),
                   fetched |-> TRUE,
                   ret |-> [raised |-> FALSE, value |-> printerdetails]]
    ELSE [cache |-> cache, fetched |-> FALSE,
          ret |-> [raised |-> FALSE, value |-> cache[printerid]]]

MaxDetailCalls == 3

MaxRev == 2

DtlInit ==
    /\ requestor = NoRequestor
    /\ cachedPrinterDetails = <<>>
    /\ detailRev = [p \in PrinterIdSet |-> 1]
    /\ callsFor = [p \in PrinterIdSet |-> 0]
    /\ attempts = [p \in PrinterIdSet |-> 0]
    /\ firstFetch = [p \in PrinterIdSet |-> "none"]
    /\ failedLast = [p \in PrinterIdSet |-> FALSE]
    /\ dtlLast = "None"
    /\ dtlReturn = [raised |-> FALSE, value |-> NoPayload]

\* One call of getPrinterDetails(printerid); the network may fail.
GetPrinterDetails ==
    \E printerid \in PrinterIdSet, fails \in BOOLEAN :
        LET res == getPrinterDetails(requestor, cachedPrinterDetails, detailRev,
                                     printerid, fails)
        IN  /\ callsFor[printerid] < MaxDetailCalls
            /\ cachedPrinterDetails' = res.cache
            /\ dtlReturn' = res.ret
            /\ dtlLast' = printerid
            /\ callsFor' = [callsFor EXCEPT ![printerid] = @ + 1]
            /\ attempts' = [attempts EXCEPT ![printerid] = IF res.fetched THEN @ + 1 ELSE @]
            /\ firstFetch' = [firstFetch EXCEPT ![printerid] =
                                IF res.fetched /\ @ = "none"
                                THEN (IF fails THEN "failed" ELSE "ok")
                                ELSE @]
            /\ failedLast' = [failedLast EXCEPT ![printerid] =
                                IF res.fetched THEN fails ELSE @]
            /\ UNCHANGED <<requestor, detailRev>>

\* A caller assigns the requestor attribute.
SetRequestor ==
    /\ \E r \in RequestorSet : requestor # r /\ requestor' = r
    /\ UNCHANGED <<cachedPrinterDetails, detailRev, callsFor, attempts, firstFetch,
                   failedLast, dtlLast, dtlReturn>>

\* The cloud's details of a printer change.
DetailChange ==
    /\ \E p \in PrinterIdSet :
          /\ detailRev[p] < MaxRev
          /\ detailRev' = [detailRev EXCEPT ![p] = @ + 1]
    /\ UNCHANGED <<requestor, cachedPrinterDetails, callsFor, attempts, firstFetch,
                   failedLast, dtlLast, dtlReturn>>


(***************************************************************************)
(* Properties of the detail cache                                          *)
(***************************************************************************)

\* C6: for every id whose first printer(id) fetch succeeded, exactly one
\* fetch has been performed however many calls followed; a call that does
\* not raise returns the cached payload; a cache entry is never removed or
\* replaced.
C6_OneFetchPerId ==
    /\ [](\A p \in PrinterIdSet :
            firstFetch[p] = "ok" => (attempts[p] = 1 /\ p \in DOMAIN cachedPrinterDetails))
    /\ [](~dtlReturn.raised /\ dtlLast \in PrinterIdSet =>
            /\ dtlLast \in DOMAIN cachedPrinterDetails
            /\ dtlReturn.value = cachedPrinterDetails[dtlLast])
    /\ [][\A p \in DOMAIN cachedPrinterDetails :
            /\ p \in DOMAIN cachedPrinterDetails'
            /\ cachedPrinterDetails'[p] = cachedPrinterDetails[p]]_dtlVars

\* An id was fetched once, asked for again several times, and the cached
\* payload returned is older than what the cloud holds now.
C6_Witness ==
    /\ dtlLast \in PrinterIdSet
    /\ firstFetch[dtlLast] = "ok"
    /\ callsFor[dtlLast] >= 3
    /\ attempts[dtlLast] = 1
    /\ ~dtlReturn.raised
    /\ dtlReturn.value.rev < detailRev[dtlLast]

\* The step is a getPrinterDetails(p) call.
IsCallFor(p) == callsFor'[p] = callsFor[p] + 1

\* C7: a failing printer(id) fetch raises to the caller and stores nothing;
\* the next call for that id performs the fetch again.
C7_FailedFetchNotCached ==
    /\ [][\A p \in PrinterIdSet :
            (IsCallFor(p) /\ attempts'[p] = attempts[p] + 1 /\ failedLast'[p]) =>
                /\ dtlReturn'.raised
                /\ cachedPrinterDetails' = cachedPrinterDetails
                /\ p \notin DOMAIN cachedPrinterDetails']_dtlVars
    /\ [][\A p \in PrinterIdSet :
            (IsCallFor(p) /\ failedLast[p]) => attempts'[p] = attempts[p] + 1]_dtlVars

\* A fetch for an id failed, and the next call fetched again and succeeded.
C7_Witness ==
    /\ dtlLast \in PrinterIdSet
    /\ firstFetch[dtlLast] = "failed"
    /\ attempts[dtlLast] = 2
    /\ dtlLast \in DOMAIN cachedPrinterDetails
    /\ ~dtlReturn.raised

(***************************************************************************)
(* PrinterManager.getOverrideCapabilities                                  *)
(*                                                                         *)
(* Option strings are sequences of the characters ' ', '=', 'k' and of the *)
(* words 'no', 'landscape', 'Orientation' taken as single symbols.         *)
(***************************************************************************)

Orientation == <<"Orientation">>

Landscape == <<"Landscape">>

Contains(s, c) == \E i \in 1..Len(s) : s[i] = c

\* optionparts[1]; a token with '=' splits into at least two parts.
OverrideStep(overridecapabilities, optiontext) ==
    LET optionparts == Split(optiontext, "=")
        afterPair ==
            IF Contains(optiontext, "=") /\ optionparts[1] # Orientation
            THEN DictSet(overridecapabilities, optionparts[1], optionparts[2])
            ELSE overridecapabilities
    IN  IF Contains(optiontext, "=") /\ optionparts[1] = Orientation
        THEN overridecapabilities
        ELSE IF optiontext = <<"landscape">> \/ optiontext = <<"no", "landscape">>
        THEN DictSet(afterPair, Orientation, Landscape)
        ELSE afterPair

RECURSIVE OverrideLoop(_, _, _)
OverrideLoop(overrideoptions, i, overridecapabilities) ==
    IF i > Len(overrideoptions) THEN overridecapabilities
    ELSE OverrideLoop(overrideoptions, i + 1,
                      OverrideStep(overridecapabilities, overrideoptions[i]))

RECURSIVE FirstWinsLoop(_, _, _)
FirstWinsLoop(overrideoptions, i, overridecapabilities) ==
    IF i < 1 THEN overridecapabilities
    ELSE FirstWinsLoop(overrideoptions, i - 1,
                       OverrideStep(overridecapabilities, overrideoptions[i]))

\* Variant: the tokens are applied last to first, so the first token of a
\* key wins.
getOverrideCapabilities_firstWins(overrideoptionsstring) ==
    LET overrideoptions == Split(overrideoptionsstring, " ")
    IN  FirstWinsLoop(overrideoptions, Len(overrideoptions), <<>>)

getOverrideCapabilities(overrideoptionsstring) ==
    OverrideLoop(Split(overrideoptionsstring, " "), 1, <<>>)

MaxOptLen == 6

OptAlphabet == {" ", "=", "k", "no", "landscape", "Orientation"}

OptInit ==
    /\ optIn \in SeqsUpTo(OptAlphabet, MaxOptLen)
    /\ optOut = <<>>
    /\ optPc = "start"

GetOverrideCapabilitiesCall ==
    /\ optPc = "start"
    /\ optOut' = getOverrideCapabilities(optIn)
    /\ optPc' = "done"
    /\ UNCHANGED optIn

(***************************************************************************)
(* Properties of the option parser                                         *)
(***************************************************************************)

\* The tokens of the option string and, for a token with '=', the text
\* before its first '=' and the text between that '=' and the next one.
OptTokens == Split(optIn, " ")

TokenKey(t) == SubSeq(t, 1, FindAny(t, {"="}, 1) - 1)

TokenValue(t) ==
    LET eq == FindAny(t, {"="}, 1)
    IN  SubSeq(t, eq + 1, FindAny(t, {"="}, eq + 1) - 1)

PairTokens == {i \in 1..Len(OptTokens) :
                 Contains(OptTokens[i], "=") /\ TokenKey(OptTokens[i]) # Orientation}

HasLandscapeFlag ==
    \E i \in 1..Len(OptTokens) :
        OptTokens[i] \in {<<"landscape">>, <<"no", "landscape">>}

LastPairFor(key) ==
    CHOOSE i \in PairTokens :
        /\ TokenKey(OptTokens[i]) = key
        /\ \A j \in PairTokens : TokenKey(OptTokens[j]) = key => j <= i

\* C8: the result maps every key of a key=value token, Orientation excepted,
\* to the value of the last token with that key; it maps Orientation to
\* Landscape exactly when a landscape or nolandscape token occurs; it has no
\* other entry.
C8_OverridesMapping ==
    optPc = "done" =>
        /\ DOMAIN optOut = {TokenKey(OptTokens[i]) : i \in PairTokens}
                             \cup (IF HasLandscapeFlag THEN {Orientation} ELSE {})
        /\ \A i \in PairTokens :
              optOut[TokenKey(OptTokens[i])] =
                  TokenValue(OptTokens[LastPairFor(TokenKey(OptTokens[i]))])
        /\ HasLandscapeFlag => optOut[Orientation] = Landscape

\* A string with two tokens for one key and different values has been
\* parsed.
C8_Witness ==
    /\ optPc = "done"
    /\ \E i, j \in PairTokens :
          /\ i < j
          /\ TokenKey(OptTokens[i]) = TokenKey(OptTokens[j])
          /\ TokenValue(OptTokens[i]) # TokenValue(OptTokens[j])
          /\ optOut[TokenKey(OptTokens[i])] = TokenValue(OptTokens[j])

(***************************************************************************)
(* PrinterManager.getInternalName and PrinterManager.getCapabilitiesDict   *)
(*                                                                         *)
(* Capability, option and attribute names are sequences of symbols: the    *)
(* words 'Default', 'GCP_' and the reserved words are single symbols, the  *)
(* rest are characters.                                                    *)
(***************************************************************************)

reservedCapabilityWords ==
    {<<w>> : w \in {"Duplex", "Resolution", "Attribute", "Choice", "ColorDevice",
        "ColorModel", "ColorProfile", "Copyright", "CustomMedia", "Cutter", "Darkness",
        "DriverType", "FileName", "Filter", "Finishing", "Font", "Group", "HWMargins",
        "InputSlot", "Installable", "LocAttribute", "ManualCopies", "Manufacturer",
        "MaxSize", "MediaSize", "MediaType", "MinSize", "ModelName", "ModelNumber",
        "Option", "PCFileName", "SimpleColorProfile", "Throughput", "UIConstraints",
        "VariablePaperSize", "Version", "Color", "Background", "Stamp",
        "DestinationColorProfile"}}

\* Characters that cannot appear in a driver identifier.
UnsafeChars == {" "}

InList(list, x) == \E i \in 1..Len(list) : list[i] = x

RECURSIVE Disambiguate(_, _, _)
\* The first of base, base_1, base_2, ... that existingList does not hold.
Disambiguate(base, existingList, n) ==
    LET candidate == IF n = 0 THEN base ELSE Append(base, "_" \o ToString(n))
    IN  IF InList(existingList, candidate)
        THEN Disambiguate(base, existingList, n + 1)
        ELSE candidate

\* The driver-safe identifier of a capability or option: unsafe characters
\* are dropped; a capability name that is a reserved word is prefixed; an
\* option name already used under the same capability gets a counter.
getInternalName(details, internalType, capabilityName, existingList) ==
    LET sanitised == SelectSeq(details.name, LAMBDA c : c \notin UnsafeChars)
    IN  IF internalType = "capability"
        THEN IF sanitised \in reservedCapabilityWords
             THEN <<"GCP_">> \o sanitised
             ELSE sanitised
        ELSE Disambiguate(sanitised, existingList, 0)

\* str.replace(word, '') for a word that is one symbol.
RemoveAll(s, word) == SelectSeq(s, LAMBDA c : c # word)

\* str.startswith(word)
StartsWith(s, word) == s # <<>> /\ Head(s) = word

RECURSIVE OptionLoop(_, _, _, _, _)
\* "for option in capability['options']" from position i: the name of the
\* first option whose internal name is wanted, None when the loop runs out.
OptionLoop(options, i, gcpname, added, wanted) ==
    IF i > Len(options) THEN None
    ELSE LET internal == getInternalName(options[i], "option", gcpname, added)
         IN  IF wanted = internal THEN options[i].name
             ELSE OptionLoop(options, i + 1, gcpname, Append(added, internal), wanted)

\* Variant: the job's overrides are not looked at.
ApplyOverride_ignored(attr, capability, gcpoption, overridecapabilities) == gcpoption

\* The loop over overridecapabilities: the one key with
\* 'Default' + key = attr['name'] selects an option by internal name; when
\* no option matches, gcpoption keeps its value.
ApplyOverride(attr, capability, gcpoption, overridecapabilities) ==
    IF \E k \in DOMAIN overridecapabilities : <<"Default">> \o k = attr.name
    THEN LET overridecapability ==
                 CHOOSE k \in DOMAIN overridecapabilities : <<"Default">> \o k = attr.name
             selected == OptionLoop(capability.options, 1, capability.name, <<>>,
                                    overridecapabilities[overridecapability])
         IN  IF selected # None THEN selected ELSE gcpoption
    ELSE gcpoption

RECURSIVE CapabilityLoop(_, _, _, _)
\* "for capability in printercapabilities" from position i: gcpname and
\* gcpoption as the first capability whose internal name is the hash name
\* leaves them; both None when no capability matches.
CapabilityLoop(printercapabilities, i, attr, overridecapabilities) ==
    IF i > Len(printercapabilities) THEN [gcpname |-> None, gcpoption |-> None]
    ELSE LET capability == printercapabilities[i]
             hashname   == RemoveAll(attr.name, "Default")
         IN  IF hashname = getInternalName(capability, "capability", None, <<>>)
             THEN [gcpname |-> capability.name,
                   gcpoption |-> ApplyOverride(attr, capability,
                                     OptionLoop(capability.options, 1, capability.name,
                                                <<>>, attr.value),
                                     overridecapabilities)]
             ELSE CapabilityLoop(printercapabilities, i + 1, attr, overridecapabilities)

Feature(gcpname, gcpoption) ==
    [type |-> "Feature", name |-> gcpname, options |-> <<[name |-> gcpoption]>>]

RECURSIVE AttrLoop(_, _, _, _, _)
\* "for attr in attrs" from position i, with the entries appended so far.
AttrLoop(attrs, i, printercapabilities, overridecapabilities, capabilities) ==
    IF i > Len(attrs) THEN capabilities
    ELSE LET attr  == attrs[i]
             found == CapabilityLoop(printercapabilities, 1, attr, overridecapabilities)
         IN  IF StartsWith(attr.name, "Default")
                /\ found.gcpname # None /\ found.gcpoption # None
             THEN AttrLoop(attrs, i + 1, printercapabilities, overridecapabilities,
                           Append(capabilities, Feature(found.gcpname, found.gcpoption)))
             ELSE AttrLoop(attrs, i + 1, printercapabilities, overridecapabilities,
                           capabilities)

getCapabilitiesDict(attrs, printercapabilities, overridecapabilities) ==
    [capabilities |-> AttrLoop(attrs, 1, printercapabilities, overridecapabilities, <<>>)]

MaxCaps == 2

\* Capability names: plain, reserved, and one containing the word Default.
CapNames == {<<"x">>, <<"Duplex">>, <<"x", "Default">>}

\* Option lists: one option, and two options whose names sanitise alike.
OptionLists ==
    {<<[name |-> <<"o">>]>>,
     <<[name |-> <<"o">>], [name |-> <<"o", " ">>]>>,
     <<[name |-> <<"o", " ">>], [name |-> <<"o">>]>>}

Capabilities == [name : CapNames, options : OptionLists]

\* Driver attributes: named Default + an internal or display name, or not
\* starting with Default; valued with an option's internal name or not.
AttrValues == {<<"o">>, <<"o", "_1">>, <<"z">>}

Attrs ==
    [name : {<<"Default", "x">>, <<"Default", "GCP_", "Duplex">>, <<"Default", "Duplex">>,
             <<"Default", "x", "Default">>, <<"x">>},
     value : AttrValues]

\* One attribute, possibly after an attribute that is skipped or after one
\* that may emit an entry of its own.
AttrLists ==
    {<<a>> : a \in Attrs}
      \cup {<<b, a>> : a \in Attrs,
                       b \in {[name |-> <<"x">>, value |-> <<"o">>],
                              [name |-> <<"Default", "x">>, value |-> <<"o">>]}}

\* Overrides: none, or one entry keyed by an internal or a display name.
OverrideDicts ==
    {<<>>} \cup {DictSet(<<>>, k, v) :
                    k \in {<<"x">>, <<"Duplex">>, <<"GCP_", "Duplex">>, <<"x", "Default">>},
                    v \in AttrValues}

CapInit ==
    /\ capIn \in [attrs : AttrLists,
                  printercapabilities :
                      {c \in SeqsUpTo(Capabilities, MaxCaps) : c # <<>>},
                  overridecapabilities : OverrideDicts]
    /\ capOut = [capabilities |-> <<>>]
    /\ capPc = "start"

GetCapabilitiesDictCall ==
    /\ capPc = "start"
    /\ capOut' = getCapabilitiesDict(capIn.attrs, capIn.printercapabilities,
                                     capIn.overridecapabilities)
    /\ capPc' = "done"
    /\ UNCHANGED capIn

(***************************************************************************)
(* Properties of the capability payload                                    *)
(***************************************************************************)

CapAttrs == capIn.attrs

CapList == capIn.printercapabilities

CapOverrides == capIn.overridecapabilities

\* The internal name of capability c, and of each of its options in order.
CapInternal(c) == getInternalName(c, "capability", None, <<>>)

RECURSIVE OptInternals(_, _)
OptInternals(c, n) ==
    IF n = 0 THEN <<>>
    ELSE LET before == OptInternals(c, n - 1)
         IN  Append(before, getInternalName(c.options[n], "option", c.name, before))

\* Position of the first option of c whose internal name is v, 0 if none.
OptIndex(c, v) ==
    LET names == OptInternals(c, Len(c.options))
        hits  == {j \in 1..Len(names) : names[j] = v}
    IN  IF hits = {} THEN 0 ELSE CHOOSE j \in hits : \A h \in hits : j <= h

\* Position of the capability attribute a selects: the first one whose
\* internal name is a's name with every 'Default' removed; 0 if none or if
\* a is no Default attribute.
MatchedCap(a) ==
    LET hits == {i \in 1..Len(CapList) :
                    CapInternal(CapList[i]) = RemoveAll(a.name, "Default")}
    IN  IF ~StartsWith(a.name, "Default") \/ hits = {} THEN 0
        ELSE CHOOSE i \in hits : \A h \in hits : i <= h

EntryFor(c, j) == <<Feature(c.name, c.options[j].name)>>

\* What attribute a contributes when override value ov is applied to it
\* (ov = None: no override applies).
Contribution(a, ov) ==
    IF MatchedCap(a) = 0 THEN <<>>
    ELSE LET c == CapList[MatchedCap(a)]
         IN  IF ov # None /\ OptIndex(c, ov) # 0 THEN EntryFor(c, OptIndex(c, ov))
             ELSE IF OptIndex(c, a.value) # 0 THEN EntryFor(c, OptIndex(c, a.value))
             ELSE <<>>

\* The override value that applies to a: the entry keyed by a's name
\* without its leading 'Default'.
OverrideByAttrName(a) ==
    IF StartsWith(a.name, "Default") /\ Tail(a.name) \in DOMAIN CapOverrides
    THEN CapOverrides[Tail(a.name)] ELSE None

RECURSIVE EntriesOf(_, _)
\* Number of entries the attributes at positions lo..hi contribute.
EntriesOf(lo, hi) ==
    IF lo > hi THEN 0
    ELSE Len(Contribution(CapAttrs[lo], OverrideByAttrName(CapAttrs[lo])))
           + EntriesOf(lo + 1, hi)

\* The part of the emitted list that belongs to the attribute at position i.
SliceOf(i) ==
    SubSeq(capOut.capabilities, EntriesOf(1, i - 1) + 1,
           Len(capOut.capabilities) - EntriesOf(i + 1, Len(CapAttrs)))

CapDone == capPc = "done"

\* The attribute's name holds 'Default' as its prefix only, so that stripping
\* the prefix and removing every 'Default' give the same hash name.
PlainDefaultName(a) ==
    StartsWith(a.name, "Default") /\ RemoveAll(a.name, "Default") = Tail(a.name)

\* C9 as stated: for an attribute that matches a capability whose display
\* name keys an override, the option with the override's value as internal
\* name is emitted, else the attribute-derived one.  Stated for attribute
\* names with no 'Default' after the prefix.
C9_OverrideByDisplayName ==
    CapDone =>
        \A i \in 1..Len(CapAttrs) :
            LET a == CapAttrs[i]
            IN  (/\ PlainDefaultName(a)
                 /\ MatchedCap(a) # 0
                 /\ CapList[MatchedCap(a)].name \in DOMAIN CapOverrides) =>
                    SliceOf(i) = Contribution(a, CapOverrides[CapList[MatchedCap(a)].name])

\* C9 amended: for an attribute that matches a capability, an override keyed
\* by the attribute's name without its leading 'Default' selects the emitted
\* option by internal name, before the attribute's own value; when its value
\* names no option the attribute-derived option, if any, is emitted.
C9_OverrideByAttributeName ==
    CapDone =>
        \A i \in 1..Len(CapAttrs) :
            LET a == CapAttrs[i]
            IN  (MatchedCap(a) # 0 /\ OverrideByAttrName(a) # None) =>
                    SliceOf(i) = Contribution(a, OverrideByAttrName(a))

\* An override replaced the option the attribute's value selects.
C9_Witness ==
    /\ CapDone
    /\ \E i \in 1..Len(CapAttrs) :
          LET a == CapAttrs[i]
          IN  /\ MatchedCap(a) # 0
              /\ OverrideByAttrName(a) # None
              /\ Contribution(a, None) # <<>>
              /\ SliceOf(i) # <<>>
              /\ SliceOf(i) # Contribution(a, None)

\* C10 as stated: an attribute named 'Default' + a capability's internal
\* name, valued with the internal name of one of its options, yields with no
\* overrides one Feature entry naming that capability and that option.
C10_RoundTrip ==
    (CapDone /\ CapOverrides = <<>>) =>
        \A i \in 1..Len(CapAttrs), n \in 1..Len(CapList) :
            \A j \in 1..Len(CapList[n].options) :
                (/\ CapAttrs[i].name = <<"Default">> \o CapInternal(CapList[n])
                 /\ CapAttrs[i].value =
                        OptInternals(CapList[n], Len(CapList[n].options))[j])
                    => SliceOf(i) = EntryFor(CapList[n], j)

(***************************************************************************)
(* Specification of the URI parser: one call on a bounded input            *)
(***************************************************************************)

MaxUriLen == 7

UriAlphabet == {"/", "%", "4", "p"}

\* Account name sets a caller may hold: none, a plain name, a name that needs
\* URL-encoding in a URI, or both.
AccountSets == SUBSET {<<"p">>, <<"D">>}

NoUriOut == [accountName |-> None, printerName |-> None, printerId |-> None,
             formatId |-> 0, raised |-> FALSE]

UriInit ==
    /\ uriIn \in [uri : {PROTOCOL \o r : r \in SeqsUpTo(UriAlphabet, MaxUriLen)},
                  accounts : AccountSets]
    /\ uriOut = NoUriOut
    /\ uriPc = "start"

ParseLegacyURICall ==
    /\ uriPc = "start"
    /\ uriOut' = parseLegacyURI(uriIn.uri, uriIn.accounts)
    /\ uriPc' = "done"
    /\ UNCHANGED uriIn


(***************************************************************************)
(* Properties of the URI parser                                            *)
(***************************************************************************)

\* The authority and the path segments of the parsed input, read off the URI
\* text: the authority is what follows "cloudprint://" up to the next '/',
\* the segments are the pieces of the path between its inner slashes.
UriAuthority == urlparse(uriIn.uri).netloc

UriStripped == Strip(urlparse(uriIn.uri).path, "/")

UriSlashes == Cardinality({i \in 1..Len(UriStripped) : UriStripped[i] = "/"})

UriSegment(n) == Split(UriStripped, "/")[n]

UriDone == uriPc = "done"

\* C1: a path with exactly two segments always parses as F20140307 with
\* printerId = decoded second segment, accountName = decoded first segment,
\* printerName = decoded authority, whether or not the authority is a known
\* account name.
C1_TwoSegmentsIs20140307 ==
    (UriDone /\ UriSlashes = 1) =>
        /\ ~uriOut.raised
        /\ uriOut.formatId = URIFormat20140307
        /\ uriOut.printerId = unquote(UriSegment(2))
        /\ uriOut.accountName = unquote(UriSegment(1))
        /\ uriOut.printerName = unquote(UriAuthority)

\* A two-segment URI whose authority is a known account name has been parsed,
\* and URL-decoding changed its authority.
C1_Witness ==
    /\ UriDone
    /\ UriSlashes = 1
    /\ unquote(UriAuthority) \in uriIn.accounts
    /\ unquote(UriAuthority) # UriAuthority
    /\ uriOut.formatId = URIFormat20140307

C2_WitnessNoShape ==
    /\ UriDone
    /\ UriSlashes = 2
    /\ uriOut.formatId = URIFormat20140210

\* C3 as stated: in every result exactly one of printerName and printerId is
\* present and the other is None.
C3_ExactlyOnePresent ==
    UriDone => ((uriOut.printerName = None) # (uriOut.printerId = None))

\* C3 amended: Latest has printerId and no printerName, F20140210 has
\* printerName and no printerId, F20140307 has both.
C3_PresencePerFormat ==
    UriDone =>
        /\ uriOut.formatId \in {URIFormatLatest, URIFormat20140307, URIFormat20140210}
        /\ uriOut.formatId = URIFormatLatest =>
              (uriOut.printerId # None /\ uriOut.printerName = None)
        /\ uriOut.formatId = URIFormat20140210 =>
              (uriOut.printerName # None /\ uriOut.printerId = None)
        /\ uriOut.formatId = URIFormat20140307 =>
              (uriOut.printerName # None /\ uriOut.printerId # None)

\* An F20140307 result carrying both a printer name and a printer id.
C3_Witness ==
    /\ UriDone
    /\ uriOut.formatId = URIFormat20140307
    /\ uriOut.printerName = <<"p">>
    /\ uriOut.printerId = <<"p">>

(***************************************************************************)
(* Specifications                                                          *)
(***************************************************************************)

vars == <<uriVars, lstVars, dtlVars, optVars, capVars>>

\* The parts of the state a specification does not exercise stay as
\* constructed.
UriIdle ==
    /\ uriIn = [uri |-> PROTOCOL, accounts |-> {}]
    /\ uriOut = NoUriOut
    /\ uriPc = "start"

LstIdle ==
    /\ cloud = [r \in RequestorSet |-> {}]
    /\ hasPrinters = FALSE
    /\ printersAttr = <<>>
    /\ searchCount = [r \in RequestorSet |-> 0]
    /\ lstCalls = 0
    /\ lstFilter = NoFilter
    /\ lstReturn = NoReturn
    /\ firstFilter = NoFilter
    /\ firstFetched = <<>>

OptIdle ==
    /\ optIn = <<>>
    /\ optOut = <<>>
    /\ optPc = "start"

CapIdle ==
    /\ capIn = [attrs |-> <<>>, printercapabilities |-> <<>>,
                overridecapabilities |-> <<>>]
    /\ capOut = [capabilities |-> <<>>]
    /\ capPc = "start"

\* One parseLegacyURI call on any bounded URI.
UriNext == ParseLegacyURICall /\ UNCHANGED <<lstVars, dtlVars, optVars, capVars>>

UriSpecInit == UriInit /\ LstIdle /\ DtlInit /\ OptIdle /\ CapIdle

UriSpec == UriSpecInit /\ [][UriNext]_vars

\* The printer list cache of one PrinterManager.
ListNext ==
    \/ GetPrinters /\ UNCHANGED <<uriVars, dtlVars, optVars, capVars>>
    \/ CloudChange /\ UNCHANGED <<uriVars, dtlVars, optVars, capVars>>

ListSpecInit == UriIdle /\ LstInit /\ DtlInit /\ OptIdle /\ CapIdle

ListSpec == ListSpecInit /\ [][ListNext]_vars

\* The detail cache of one PrinterManager.
DetailNext ==
    \/ GetPrinterDetails /\ UNCHANGED <<uriVars, lstVars, optVars, capVars>>
    \/ SetRequestor /\ UNCHANGED <<uriVars, lstVars, optVars, capVars>>
    \/ DetailChange /\ UNCHANGED <<uriVars, lstVars, optVars, capVars>>

DetailSpecInit == UriIdle /\ LstIdle /\ DtlInit /\ OptIdle /\ CapIdle

DetailSpec == DetailSpecInit /\ [][DetailNext]_vars

\* One getOverrideCapabilities call on any bounded option string.
OptNext == GetOverrideCapabilitiesCall /\ UNCHANGED <<uriVars, lstVars, dtlVars, capVars>>

OptSpecInit == UriIdle /\ LstIdle /\ DtlInit /\ OptInit /\ CapIdle

OptSpec == OptSpecInit /\ [][OptNext]_vars

\* One getCapabilitiesDict call on any bounded input.
CapNext == GetCapabilitiesDictCall /\ UNCHANGED <<uriVars, lstVars, dtlVars, optVars>>

CapSpecInit == UriIdle /\ LstIdle /\ DtlInit /\ OptIdle /\ CapInit

CapSpec == CapSpecInit /\ [][CapNext]_vars

====
